---- MODULE Spec2Model ----
(***************************************************************************)
(* Model of the SSE transport adapter of the browser-use MCP server        *)
(* (browser_use/mcp/server_sse.py): the request handlers handle_sse and    *)
(* handle_messages of SSEMCPServer, the session registry of the SSE        *)
(* transport they drive, and the protocol engine run bound to a session.   *)
(***************************************************************************)
EXTENDS Integers, Sequences, FiniteSets, TLC

\* ------------------------------------------------------------------ bounds
MaxConns == 2      \* SSE connections opened in one behaviour
MaxPosts == 2      \* POST /messages requests in one behaviour
MaxEmit == 2       \* messages one engine run emits
MaxGets == 3       \* GET requests to /health and to unrouted paths
MaxClock == 5      \* last reading of the wall clock, in ticks

Conns == 1..MaxConns
Posts == 1..MaxPosts
SessionIds == 1..MaxConns
NeverCreated == 0
Targets == {NeverCreated} \cup SessionIds
\* the request names no session: no session_id query parameter
NoSessionId == -1

\* ------------------------------------------------------- text and bytes
\* A text is a sequence of code points, a body a sequence of bytes.
Texts == { <<>>, <<233>> }
InvalidUtf8 == <<255>>

\* str.encode('utf-8') for code points below 2048
RECURSIVE Utf8Encode(_)
Utf8Encode(text) ==
    IF text = <<>> THEN <<>>
    ELSE LET cp == Head(text) IN
         (IF cp < 128 THEN <<cp>>
          ELSE <<192 + (cp \div 64), 128 + (cp % 64)>>) \o Utf8Encode(Tail(text))

\* bytes.decode('utf-8'): ok = FALSE stands for UnicodeDecodeError
RECURSIVE Utf8Decode(_)
Utf8Decode(bytes) ==
    IF bytes = <<>> THEN [ok |-> TRUE, text |-> <<>>]
    ELSE LET b == Head(bytes) IN
         IF b < 128
         THEN LET rest == Utf8Decode(Tail(bytes)) IN
              [ok |-> rest.ok, text |-> <<b>> \o rest.text]
         ELSE IF b >= 194 /\ b < 224 /\ Len(bytes) >= 2
                 /\ bytes[2] >= 128 /\ bytes[2] < 192
         THEN LET rest == Utf8Decode(Tail(Tail(bytes))) IN
              [ok |-> rest.ok, text |-> <<(b - 192) * 64 + (bytes[2] - 128)>> \o rest.text]
         ELSE [ok |-> FALSE, text |-> <<>>]

Bodies == { Utf8Encode(t) : t \in Texts }

VARIABLES
    registry,    \* session id -> "Absent" | "Open" | "Closed"
    inbound,     \* session id -> queue of payloads not yet read by the engine
    delivered,   \* session id -> every payload ever appended to the queue
    received,    \* session id -> payloads the engine run has read
    nextId,      \* next session id the registry allocates
    sse,         \* connection -> state of its handle_sse invocation
    stream,      \* connection -> SSE events written to the response
    emitted,     \* connection -> every message the engine run emitted
    post,        \* POST request -> state of its handle_messages invocation
    resp,        \* POST request -> responses written on the request
    arrived,     \* number of POST requests that have arrived
    clock,       \* time.time(), in ticks
    startTime,   \* SSEMCPServer._start_time
    gets,        \* responses to GET /health and to GETs of unrouted paths
    proc,        \* the server process: position, import flags, exit code
    lifecycle,   \* what the process has done so far, in order
    reclosed,    \* the session of the stream was closed again after its close
    request,     \* a received POST: its scope and the field data of its form
    forwarded    \* what handle_messages handed to the transport for it

vars == <<registry, inbound, delivered, received, nextId, sse, stream,
          emitted, post, resp, arrived, clock, startTime, gets, proc, lifecycle,
          reclosed, request, forwarded>>

sessVars == <<registry, inbound, delivered, received, nextId>>
sseVars == <<sse, stream, emitted>>
postVars == <<post, resp, arrived>>
auxVars == <<clock, startTime, gets, proc, lifecycle, reclosed, request,
             forwarded>>

\* uptime is counted in seconds, the clock here in half seconds
TicksPerSecond == 2

\* the process once main_sse has reached server.serve()
ServingProc ==
    [pc |-> "serving", installed_starlette |-> TRUE, installed_mcp |-> TRUE,
     STARLETTE_AVAILABLE |-> TRUE, MCP_SSE_AVAILABLE |-> TRUE,
     block |-> 1, outcome |-> "none", exited |-> FALSE, code |-> 0]
ServingEvents == <<"parse_args", "engine", "cleanup", "server", "start", "serve">>

\* no POST received yet
NoRequest ==
    [scope |-> [path |-> "/messages", query_string |-> "", headers |-> <<>>],
     form |-> "none", body |-> <<>>]
IdleSse == [pc |-> "idle", sid |-> NeverCreated, gone |-> FALSE,
            how |-> "none", starts |-> 0]
NoPost == [pc |-> "none", enc |-> "none", form |-> "none", body |-> <<>>,
           sid |-> NeverCreated, seen |-> "none"]

Init ==
    /\ registry = [s \in SessionIds |-> "Absent"]
    /\ inbound = [s \in SessionIds |-> <<>>]
    /\ delivered = [s \in SessionIds |-> <<>>]
    /\ received = [s \in SessionIds |-> <<>>]
    /\ nextId = 1
    /\ sse = [c \in Conns |-> IdleSse]
    /\ stream = [c \in Conns |-> <<>>]
    /\ emitted = [c \in Conns |-> <<>>]
    /\ post = [r \in Posts |-> NoPost]
    /\ resp = [r \in Posts |-> <<>>]
    /\ arrived = 0
    /\ clock = TicksPerSecond
    /\ startTime = TicksPerSecond
    /\ gets = <<>>
    /\ proc = ServingProc
    /\ lifecycle = ServingEvents
    /\ reclosed = [c \in Conns |-> FALSE]
    /\ request = NoRequest
    /\ forwarded = <<>>

\* --------------------------------------------------------- session registry
\* a registry that hands out the id of a closed session again
RegistryNewId_Reuse ==
    IF \E s \in SessionIds : registry[s] = "Closed"
    THEN CHOOSE s \in SessionIds : registry[s] = "Closed"
    ELSE nextId

\* create(): a new unique id
RegistryNewId == nextId

\* deliver(id, payload): Accepted, or Rejected(NotFound | Closed)
RegistryDeliver(sid) ==
    IF sid \notin SessionIds \/ registry[sid] = "Absent" THEN "NotFound"
    ELSE IF registry[sid] = "Closed" THEN "Closed"
    ELSE "Accepted"

\* a registry whose close refuses a session that is not Open
RegistryClose_Strict(sid) ==
    /\ registry[sid] = "Open"
    /\ registry' = [registry EXCEPT ![sid] = "Closed"]
    /\ inbound' = [inbound EXCEPT ![sid] = <<>>]

\* close(id): marks Closed and releases the queue
RegistryClose(sid) ==
    /\ registry' = [registry EXCEPT ![sid] = "Closed"]
    /\ inbound' = [inbound EXCEPT ![sid] = <<>>]

EndpointData(sid) == <<"/messages?session_id=", sid>>
EndpointEvent(sid) == [event |-> "endpoint", data |-> EndpointData(sid)]
MessageEvent(msg) == [event |-> "message", data |-> msg]

\* ------------------------------------------------------------- handle_sse
\* a server that an exception of an engine run has taken down
SseConnect_AfterCrash(c) ==
    /\ sse[c].pc = "idle"
    /\ \A d \in Conns : d < c => sse[d].pc # "idle"
    /\ \A d \in Conns : sse[d].how # "raised"
    /\ nextId \in SessionIds
    /\ LET sid == RegistryNewId IN
        /\ registry' = [registry EXCEPT ![sid] = "Open"]
        /\ inbound' = [inbound EXCEPT ![sid] = <<>>]
        /\ nextId' = nextId + 1
        /\ sse' = [sse EXCEPT ![c] = [@ EXCEPT !.pc = "created", !.sid = sid,
                                                !.starts = 1]]
    /\ UNCHANGED <<delivered, received, stream, emitted>>
    /\ UNCHANGED postVars
    /\ UNCHANGED auxVars

\* a server that holds a new connection back while another stream's engine
\* run is going on
SseConnect_Serial(c) ==
    /\ sse[c].pc = "idle"
    /\ \A d \in Conns : d < c => sse[d].pc # "idle"
    /\ \A d \in Conns : sse[d].pc \notin {"created", "running"}
    /\ nextId \in SessionIds
    /\ LET sid == RegistryNewId IN
        /\ registry' = [registry EXCEPT ![sid] = "Open"]
        /\ inbound' = [inbound EXCEPT ![sid] = <<>>]
        /\ nextId' = nextId + 1
        /\ sse' = [sse EXCEPT ![c] = [@ EXCEPT !.pc = "created", !.sid = sid,
                                                !.starts = 1]]
    /\ UNCHANGED <<delivered, received, stream, emitted>>
    /\ UNCHANGED postVars
    /\ UNCHANGED auxVars

\* a handler that registers a second session for the connection it serves
SseConnect_TwoSessions(c) ==
    /\ sse[c].pc = "idle"
    /\ \A d \in Conns : d < c => sse[d].pc # "idle"
    /\ nextId \in SessionIds
    /\ LET sid == RegistryNewId IN
        /\ registry' = [s \in SessionIds |->
                          IF s \in {sid, sid + 1} THEN "Open" ELSE registry[s]]
        /\ inbound' = [s \in SessionIds |->
                          IF s \in {sid, sid + 1} THEN <<>> ELSE inbound[s]]
        /\ nextId' = nextId + 2
        /\ sse' = [sse EXCEPT ![c] = [@ EXCEPT !.pc = "created", !.sid = sid,
                                                !.starts = 1]]
    /\ UNCHANGED <<delivered, received, stream, emitted>>
    /\ UNCHANGED postVars
    /\ UNCHANGED auxVars

\* a handler that gives a new connection the session of a stream that is
\* over, and opens it again
SseConnect_Resume(c) ==
    /\ sse[c].pc = "idle"
    /\ \A d \in Conns : d < c => sse[d].pc # "idle"
    /\ nextId \in SessionIds
    /\ LET closed == { x \in SessionIds : registry[x] = "Closed" }
           sid == IF closed # {} THEN CHOOSE x \in closed : TRUE ELSE RegistryNewId
       IN
        /\ registry' = [registry EXCEPT ![sid] = "Open"]
        /\ inbound' = [inbound EXCEPT ![sid] = <<>>]
        /\ nextId' = nextId + 1
        /\ sse' = [sse EXCEPT ![c] = [@ EXCEPT !.pc = "created", !.sid = sid,
                                                !.starts = 1]]
    /\ UNCHANGED <<delivered, received, stream, emitted>>
    /\ UNCHANGED postVars
    /\ UNCHANGED auxVars

\* GET /sse: connect_sse is entered, the session is created and registered
SseConnect(c) ==
    /\ sse[c].pc = "idle"
    /\ \A d \in Conns : d < c => sse[d].pc # "idle"
    /\ nextId \in SessionIds
    /\ LET sid == RegistryNewId IN
        /\ registry' = [registry EXCEPT ![sid] = "Open"]
        /\ inbound' = [inbound EXCEPT ![sid] = <<>>]
        /\ nextId' = nextId + 1
        /\ sse' = [sse EXCEPT ![c] = [@ EXCEPT !.pc = "created", !.sid = sid,
                                                !.starts = 1]]
    /\ UNCHANGED <<delivered, received, stream, emitted>>
    /\ UNCHANGED postVars
    /\ UNCHANGED auxVars

\* a stream handler that starts the engine run without the endpoint event
SseEndpoint_Silent(c) ==
    /\ sse[c].pc = "created"
    /\ sse' = [sse EXCEPT ![c].pc = "running"]
    /\ UNCHANGED <<stream, emitted>>
    /\ UNCHANGED sessVars
    /\ UNCHANGED postVars
    /\ UNCHANGED auxVars

\* the endpoint event is written, then the engine run is started
SseEndpoint(c) ==
    /\ sse[c].pc = "created"
    /\ stream' = [stream EXCEPT ![c] = Append(@, EndpointEvent(sse[c].sid))]
    /\ sse' = [sse EXCEPT ![c].pc = "running"]
    /\ UNCHANGED emitted
    /\ UNCHANGED sessVars
    /\ UNCHANGED postVars
    /\ UNCHANGED auxVars

\* the engine run reads the next inbound payload of its session
EngineDequeue(c) ==
    /\ sse[c].pc = "running"
    /\ inbound[sse[c].sid] # <<>>
    /\ received' = [received EXCEPT ![sse[c].sid] = Append(@, Head(inbound[sse[c].sid]))]
    /\ inbound' = [inbound EXCEPT ![sse[c].sid] = Tail(@)]
    /\ UNCHANGED <<registry, delivered, nextId>>
    /\ UNCHANGED sseVars
    /\ UNCHANGED postVars
    /\ UNCHANGED auxVars

\* a writer that puts a new message event before the last one written
FrameMessage_Reorder(events, msg) ==
    IF Len(events) >= 2
    THEN SubSeq(events, 1, Len(events) - 1) \o <<MessageEvent(msg), events[Len(events)]>>
    ELSE Append(events, MessageEvent(msg))

\* the writer frames an engine message as a message event of the stream
FrameMessage(events, msg) == Append(events, MessageEvent(msg))

\* an engine run that is not stopped by the cancellation and goes on
\* emitting
EngineEmit_AfterCancel(c) ==
    /\ sse[c].pc \in {"running", "ended"}
    /\ Len(emitted[c]) < MaxEmit
    /\ LET msg == Len(emitted[c]) + 1 IN
        /\ emitted' = [emitted EXCEPT ![c] = Append(@, msg)]
        /\ stream' = IF sse[c].gone THEN stream
                     ELSE [stream EXCEPT ![c] = FrameMessage(@, msg)]
    /\ UNCHANGED sse
    /\ UNCHANGED sessVars
    /\ UNCHANGED postVars
    /\ UNCHANGED auxVars

\* the engine run emits a message; it is framed while the client is there
EngineEmit(c) ==
    /\ sse[c].pc = "running"
    /\ Len(emitted[c]) < MaxEmit
    /\ LET msg == Len(emitted[c]) + 1 IN
        /\ emitted' = [emitted EXCEPT ![c] = Append(@, msg)]
        /\ stream' = IF sse[c].gone THEN stream
                     ELSE [stream EXCEPT ![c] = FrameMessage(@, msg)]
    /\ UNCHANGED sse
    /\ UNCHANGED sessVars
    /\ UNCHANGED postVars
    /\ UNCHANGED auxVars

\* the client closes its SSE connection
ClientDisconnect(c) ==
    /\ sse[c].pc \in {"created", "running"}
    /\ ~sse[c].gone
    /\ sse' = [sse EXCEPT ![c].gone = TRUE]
    /\ UNCHANGED <<stream, emitted>>
    /\ UNCHANGED sessVars
    /\ UNCHANGED postVars
    /\ UNCHANGED auxVars

\* server.run returns or raises
EngineReturn(c, how) ==
    /\ sse[c].pc = "running"
    /\ how \in {"returned", "raised"}
    /\ sse' = [sse EXCEPT ![c] = [@ EXCEPT !.pc = "ended", !.how = how]]
    /\ UNCHANGED <<stream, emitted>>
    /\ UNCHANGED sessVars
    /\ UNCHANGED postVars
    /\ UNCHANGED auxVars

\* the client is gone: the engine run is cancelled
SseCancel(c) ==
    /\ sse[c].pc = "running"
    /\ sse[c].gone
    /\ sse' = [sse EXCEPT ![c] = [@ EXCEPT !.pc = "ended", !.how = "cancelled"]]
    /\ UNCHANGED <<stream, emitted>>
    /\ UNCHANGED sessVars
    /\ UNCHANGED postVars
    /\ UNCHANGED auxVars

\* a handler that leaves the block without closing the session
SseExit_NoClose(c) ==
    /\ sse[c].pc = "ended"
    /\ sse' = [sse EXCEPT ![c] = [@ EXCEPT !.pc = "done",
                  !.starts = IF sse[c].how = "returned" THEN @ + 1 ELSE @]]
    /\ UNCHANGED sessVars
    /\ UNCHANGED <<stream, emitted>>
    /\ UNCHANGED postVars
    /\ UNCHANGED auxVars

\* a handler that closes the session only after a run that returned
SseExit_CloseOnReturnOnly(c) ==
    /\ sse[c].pc = "ended"
    /\ IF sse[c].how = "returned"
       THEN RegistryClose(sse[c].sid)
       ELSE UNCHANGED <<registry, inbound>>
    /\ sse' = [sse EXCEPT ![c] = [@ EXCEPT !.pc = "done",
                  !.starts = IF sse[c].how = "returned" THEN @ + 1 ELSE @]]
    /\ UNCHANGED <<delivered, received, nextId>>
    /\ UNCHANGED <<stream, emitted>>
    /\ UNCHANGED postVars
    /\ UNCHANGED auxVars

\* the async with block is left: the session is closed; after a normal
\* return of the engine run the handler returns Response()
SseExit(c) ==
    /\ sse[c].pc = "ended"
    /\ RegistryClose(sse[c].sid)
    /\ sse' = [sse EXCEPT ![c] = [@ EXCEPT !.pc = "done",
                  !.starts = IF sse[c].how = "returned" THEN @ + 1 ELSE @]]
    /\ UNCHANGED <<delivered, received, nextId>>
    /\ UNCHANGED <<stream, emitted>>
    /\ UNCHANGED postVars
    /\ UNCHANGED auxVars

SseNext ==
    \E c \in Conns :
        \/ SseConnect(c)
        \/ SseEndpoint(c)
        \/ EngineDequeue(c)
        \/ EngineEmit(c)
        \/ ClientDisconnect(c)
        \/ EngineReturn(c, "returned")
        \/ EngineReturn(c, "raised")
        \/ SseCancel(c)
        \/ SseExit(c)

\* ---------------------------------------------------------- handle_messages
\* what a client may send: a JSON body, or a multipart body that is
\* malformed, has no data field, has a text field data or a file part data
PostInputs ==
    [enc : {"json"}, form : {"none"}, body : Bodies]
    \cup [enc : {"multipart"}, form : {"malformed", "nodata"}, body : {<<>>}]
    \cup [enc : {"multipart"}, form : {"field"}, body : Bodies]
    \cup [enc : {"multipart"}, form : {"file"}, body : {<<>>, InvalidUtf8}]

\* "multipart/form-data" in content_type
IsMultipart(enc) == enc = "multipart"

\* form.get("data"): None, the decoded text of a field, or an UploadFile
FormGet(form, body) ==
    IF form = "field" THEN [kind |-> "str", text |-> Utf8Decode(body).text, bytes |-> <<>>]
    ELSE IF form = "file" THEN [kind |-> "file", text |-> <<>>, bytes |-> body]
    ELSE [kind |-> "none", text |-> <<>>, bytes |-> <<>>]

\* a check that tests for the empty string only and lets None through
MissingData_EmptyOnly(field) ==
    field.kind = "str" /\ field.text = <<>>

\* not data_field: None and the empty string are falsy, an UploadFile is not
MissingData(field) ==
    \/ field.kind = "none"
    \/ field.kind = "str" /\ field.text = <<>>

\* json_body: the read and decoded file, or str(data_field)
JsonBody(field) ==
    IF field.kind = "file" THEN Utf8Decode(field.bytes)
    ELSE [ok |-> TRUE, text |-> field.text]

\* json_bytes = json_body.encode('utf-8')
JsonBytes(text) == Utf8Encode(text)

MissingDataResponse == [status |-> 400, body |-> "Missing 'data' field in form"]
ErrorResponse == [status |-> 500, body |-> "str(exc)"]
HandlerOkResponse == [status |-> 200, body |-> ""]
AcceptedResponse == [status |-> 202, body |-> "Accepted"]
RejectedResponse(res) ==
    [status |-> IF res = "NotFound" THEN 404 ELSE 400, body |-> res]

SeenState(sid) == IF sid \in SessionIds THEN registry[sid] ELSE "Absent"

\* sse.handle_post_message: deliver to the session and answer on send
HandlePostMessage(r, sid, bytes, after) ==
    IF RegistryDeliver(sid) = "Accepted"
    THEN /\ inbound' = [inbound EXCEPT ![sid] = Append(@, [req |-> r, body |-> bytes])]
         /\ delivered' = [delivered EXCEPT ![sid] = Append(@, [req |-> r, body |-> bytes])]
         /\ resp' = [resp EXCEPT ![r] = <<AcceptedResponse>> \o after]
    ELSE /\ UNCHANGED <<inbound, delivered>>
         /\ resp' = [resp EXCEPT ![r] = <<RejectedResponse(RegistryDeliver(sid))>> \o after]

\* the session ids a client can name: ids it was sent in an endpoint event,
\* and ids no session ever had
KnownTargets == {NeverCreated} \cup {s \in SessionIds : registry[s] # "Absent"}

\* a POST /messages request arrives and handle_messages is invoked
PostArrive(in, sid) ==
    /\ arrived < MaxPosts
    /\ in \in PostInputs
    /\ sid \in KnownTargets
    /\ arrived' = arrived + 1
    /\ post' = [post EXCEPT ![arrived + 1] =
                  [pc |-> IF IsMultipart(in.enc) THEN "multipart" ELSE "json",
                   enc |-> in.enc, form |-> in.form, body |-> in.body,
                   sid |-> sid, seen |-> "none"]]
    /\ UNCHANGED resp
    /\ UNCHANGED sessVars
    /\ UNCHANGED sseVars
    /\ UNCHANGED auxVars

\* a handler that answers only once the engine run has taken every
\* earlier payload of the session
PostJson_AwaitEngine(r) ==
    /\ post[r].pc = "json"
    /\ RegistryDeliver(post[r].sid) = "Accepted" =>
          /\ inbound[post[r].sid] = <<>>
          /\ \E c \in Conns : sse[c].sid = post[r].sid /\ sse[c].pc = "running"
    /\ HandlePostMessage(r, post[r].sid, post[r].body, <<HandlerOkResponse>>)
    /\ post' = [post EXCEPT ![r] = [@ EXCEPT !.pc = "done", !.seen = SeenState(post[r].sid)]]
    /\ UNCHANGED <<registry, received, nextId, arrived>>
    /\ UNCHANGED sseVars
    /\ UNCHANGED auxVars

\* a handler that enqueues for every session the registry has an entry
\* for, without asking whether the session is still Open
PostJson_Unchecked(r) ==
    /\ post[r].pc = "json"
    /\ IF post[r].sid \in SessionIds /\ registry[post[r].sid] # "Absent"
       THEN /\ inbound' = [inbound EXCEPT ![post[r].sid] =
                              Append(@, [req |-> r, body |-> post[r].body])]
            /\ delivered' = [delivered EXCEPT ![post[r].sid] =
                              Append(@, [req |-> r, body |-> post[r].body])]
            /\ resp' = [resp EXCEPT ![r] = <<AcceptedResponse, HandlerOkResponse>>]
       ELSE HandlePostMessage(r, post[r].sid, post[r].body, <<HandlerOkResponse>>)
    /\ post' = [post EXCEPT ![r] = [@ EXCEPT !.pc = "done", !.seen = SeenState(post[r].sid)]]
    /\ UNCHANGED <<registry, received, nextId, arrived>>
    /\ UNCHANGED sseVars
    /\ UNCHANGED auxVars

\* a handler that hands the request to the transport a second time
PostJson_Retry(r) ==
    /\ post[r].pc = "json"
    /\ LET e == [req |-> r, body |-> post[r].body] IN
       IF RegistryDeliver(post[r].sid) = "Accepted"
       THEN /\ inbound' = [inbound EXCEPT ![post[r].sid] = @ \o <<e, e>>]
            /\ delivered' = [delivered EXCEPT ![post[r].sid] = @ \o <<e, e>>]
            /\ resp' = [resp EXCEPT ![r] = <<AcceptedResponse, HandlerOkResponse>>]
       ELSE HandlePostMessage(r, post[r].sid, post[r].body, <<HandlerOkResponse>>)
    /\ post' = [post EXCEPT ![r] = [@ EXCEPT !.pc = "done", !.seen = SeenState(post[r].sid)]]
    /\ UNCHANGED <<registry, received, nextId, arrived>>
    /\ UNCHANGED sseVars
    /\ UNCHANGED auxVars

\* the JSON path: forward scope and receive to the transport, return 200
PostJson(r) ==
    /\ post[r].pc = "json"
    /\ HandlePostMessage(r, post[r].sid, post[r].body, <<HandlerOkResponse>>)
    /\ post' = [post EXCEPT ![r] = [@ EXCEPT !.pc = "done", !.seen = SeenState(post[r].sid)]]
    /\ UNCHANGED <<registry, received, nextId, arrived>>
    /\ UNCHANGED sseVars
    /\ UNCHANGED auxVars

\* a handler that closes the session a failed multipart POST was sent to
PostMultipart_CloseOnError(r) ==
    /\ post[r].pc = "multipart"
    /\ LET field == FormGet(post[r].form, post[r].body)
           json_body == JsonBody(field)
           failed == post[r].form = "malformed"
                        \/ (~MissingData(field) /\ ~json_body.ok)
       IN /\ IF failed
             THEN /\ resp' = [resp EXCEPT ![r] = <<ErrorResponse>>]
                  /\ UNCHANGED <<inbound, delivered>>
             ELSE IF MissingData(field)
             THEN /\ resp' = [resp EXCEPT ![r] = <<MissingDataResponse>>]
                  /\ UNCHANGED <<inbound, delivered>>
             ELSE HandlePostMessage(r, post[r].sid, JsonBytes(json_body.text),
                                    <<HandlerOkResponse>>)
          /\ registry' = IF failed /\ post[r].sid \in SessionIds
                            /\ registry[post[r].sid] = "Open"
                         THEN [registry EXCEPT ![post[r].sid] = "Closed"]
                         ELSE registry
    /\ post' = [post EXCEPT ![r] = [@ EXCEPT !.pc = "done", !.seen = SeenState(post[r].sid)]]
    /\ UNCHANGED <<received, nextId, arrived>>
    /\ UNCHANGED sseVars
    /\ UNCHANGED auxVars

\* a handler that forwards the rebuilt request to the session created last
PostMultipart_LastSession(r) ==
    /\ post[r].pc = "multipart"
    /\ LET field == FormGet(post[r].form, post[r].body)
           json_body == JsonBody(field)
       IN IF post[r].form = "malformed"
          THEN /\ resp' = [resp EXCEPT ![r] = <<ErrorResponse>>]
               /\ UNCHANGED <<inbound, delivered>>
          ELSE IF MissingData(field)
          THEN /\ resp' = [resp EXCEPT ![r] = <<MissingDataResponse>>]
               /\ UNCHANGED <<inbound, delivered>>
          ELSE IF ~json_body.ok
          THEN /\ resp' = [resp EXCEPT ![r] = <<ErrorResponse>>]
               /\ UNCHANGED <<inbound, delivered>>
          ELSE HandlePostMessage(r, nextId - 1, JsonBytes(json_body.text),
                                 <<HandlerOkResponse>>)
    /\ post' = [post EXCEPT ![r] = [@ EXCEPT !.pc = "done", !.seen = SeenState(post[r].sid)]]
    /\ UNCHANGED <<registry, received, nextId, arrived>>
    /\ UNCHANGED sseVars
    /\ UNCHANGED auxVars

\* the multipart path: parse the form, take the data field, forward its
\* text as a JSON body, return 200; an exception is answered with 500
PostMultipart(r) ==
    /\ post[r].pc = "multipart"
    /\ LET field == FormGet(post[r].form, post[r].body)
           json_body == JsonBody(field)
       IN IF post[r].form = "malformed"
          THEN /\ resp' = [resp EXCEPT ![r] = <<ErrorResponse>>]
               /\ UNCHANGED <<inbound, delivered>>
          ELSE IF MissingData(field)
          THEN /\ resp' = [resp EXCEPT ![r] = <<MissingDataResponse>>]
               /\ UNCHANGED <<inbound, delivered>>
          ELSE IF ~json_body.ok
          THEN /\ resp' = [resp EXCEPT ![r] = <<ErrorResponse>>]
               /\ UNCHANGED <<inbound, delivered>>
          ELSE HandlePostMessage(r, post[r].sid, JsonBytes(json_body.text),
                                 <<HandlerOkResponse>>)
    /\ post' = [post EXCEPT ![r] = [@ EXCEPT !.pc = "done", !.seen = SeenState(post[r].sid)]]
    /\ UNCHANGED <<registry, received, nextId, arrived>>
    /\ UNCHANGED sseVars
    /\ UNCHANGED auxVars

PostNext ==
    \/ \E in \in PostInputs, sid \in Targets : PostArrive(in, sid)
    \/ \E r \in Posts : PostJson(r)
    \/ \E r \in Posts : PostMultipart(r)

Next == SseNext \/ PostNext

\* The POST side with the session life cycle: the engine runs read their
\* queues and emit nothing (handle_messages leaves the streams alone).
IngressNext ==
    \/ \E c \in Conns :
        \/ SseConnect(c)
        \/ SseEndpoint(c)
        \/ EngineDequeue(c)
        \/ ClientDisconnect(c)
        \/ EngineReturn(c, "returned")
        \/ EngineReturn(c, "raised")
        \/ SseCancel(c)
        \/ SseExit(c)
    \/ PostNext

\* The SSE side alone: no POST arrives, the engine runs emit at will
\* (handle_sse and the writer read nothing a POST changes).
StreamNext ==
    \E c \in Conns :
        \/ SseConnect(c)
        \/ SseEndpoint(c)
        \/ EngineEmit(c)
        \/ ClientDisconnect(c)
        \/ EngineReturn(c, "returned")
        \/ EngineReturn(c, "raised")
        \/ SseCancel(c)
        \/ SseExit(c)

SpecIngress == Init /\ [][IngressNext]_vars
SpecStream == Init /\ [][StreamNext]_vars

Spec == Init /\ [][Next]_vars

\* the event loop runs every handler that is ready to continue
SpecIngressFair ==
    /\ SpecIngress
    /\ \A c \in Conns : /\ WF_vars(SseEndpoint(c))
                        /\ WF_vars(SseCancel(c))
                        /\ WF_vars(SseExit(c))

\* ------------------------------------------------------------ vocabulary
Done(r) == post[r].pc = "done"
\* the POST carries a payload: a JSON body or the text of the field data
CarriesPayload(r) == post[r].enc = "json" \/ post[r].form = "field"
\* the status the client reads: the first response written on the request
ClientStatus(r) == Head(resp[r]).status
IsClientError(st) == st >= 400 /\ st < 500
PayloadEntry(r) == [req |-> r, body |-> post[r].body]
InSeq(e, q) == \E i \in 1..Len(q) : q[i] = e
ReachedSession(r) == \E s \in SessionIds : \E i \in 1..Len(delivered[s]) : delivered[s][i].req = r
MessagesOf(events) == SelectSeq(events, LAMBDA e : e.event = "message")
EndpointsOf(events) == SelectSeq(events, LAMBDA e : e.event = "endpoint")

\* C1: every payload POSTed to an Open session, as a JSON body or as the
\* text of the multipart field data, is observed by the engine run of that
\* session byte for byte, whichever encoding carried it.
C1_EncodingTransparency ==
    /\ \A r \in Posts :
          Done(r) /\ CarriesPayload(r) /\ post[r].seen = "Open"
            => InSeq(PayloadEntry(r), delivered[post[r].sid])
    /\ \A s \in SessionIds : \A i \in 1..Len(received[s]) :
          received[s][i].body = post[received[s][i].req].body

\* C2: a POST to a session id that was never created or is closed gets a
\* client-error response and its payload reaches no engine run, on the JSON
\* path and on the multipart path.
C2_UnknownOrClosedRejected ==
    \A r \in Posts :
        Done(r) /\ post[r].seen \in {"Absent", "Closed"}
          => IsClientError(ClientStatus(r)) /\ ~ReachedSession(r)

\* C3: a POST carrying a payload to an Open session is answered 202, in
\* either encoding and in any order or mix of encodings on one session.
C3_PayloadAccepted202 ==
    \A r \in Posts :
        Done(r) /\ CarriesPayload(r) /\ post[r].seen = "Open"
          => ClientStatus(r) = 202

\* C4: every accepted SSE connection emits exactly one endpoint event, as
\* the first event of its stream and before any message event, and its data
\* is /messages?session_id=<id> with the non-empty id of the session created
\* for that connection.
C4_EndpointFirstOnce ==
    \A c \in Conns :
        /\ Len(EndpointsOf(stream[c])) <= 1
        /\ stream[c] # <<>> =>
              /\ stream[c][1] = EndpointEvent(sse[c].sid)
              /\ sse[c].sid # NeverCreated
              /\ registry[sse[c].sid] # "Absent"
        /\ sse[c].pc \in {"running", "ended", "done"} =>
              Len(EndpointsOf(stream[c])) = 1
        /\ sse[c].pc \in {"idle", "created"} => stream[c] = <<>>

C4_Witness ==
    \E c \in Conns :
        /\ Len(stream[c]) >= 2
        /\ stream[c][1].event = "endpoint"
        /\ stream[c][2].event = "message"

C6_DistinctSessionIds ==
    \A c, d \in Conns :
        c # d /\ sse[c].pc # "idle" /\ sse[d].pc # "idle" => sse[c].sid # sse[d].sid

C6_Witness ==
    \E c, d \in Conns :
        /\ c # d
        /\ sse[c].pc = "done" /\ registry[sse[c].sid] = "Closed"
        /\ sse[d].pc = "running" /\ registry[sse[d].sid] = "Open"

\* C7: a multipart POST whose form has no data field is answered 400 with
\* the diagnostic message, nothing is delivered to any session, and the
\* registry and every inbound queue are left as they were.
C7_MissingDataField ==
    /\ [](\A r \in Posts :
            Done(r) /\ post[r].form = "nodata"
              => resp[r] = <<MissingDataResponse>> /\ ~ReachedSession(r))
    /\ [][\A r \in Posts :
            post[r].form = "nodata" /\ post[r].pc = "multipart" /\ post'[r].pc = "done"
              => UNCHANGED <<registry, inbound, delivered, received, nextId>>]_vars

C7_Witness ==
    \E r \in Posts :
        Done(r) /\ post[r].form = "nodata" /\ post[r].seen = "Open"

\* C8: an accepted POST is acknowledged without waiting for the engine: a
\* POST handler is never blocked, whatever the engine has dequeued, and the
\* response of an accepted POST is the acknowledgement alone, never a
\* JSON-RPC result or error.
C8_AckIndependentOfEngine ==
    \A r \in Posts :
        /\ post[r].pc = "json" => ENABLED PostJson(r)
        /\ post[r].pc = "multipart" => ENABLED PostMultipart(r)
        /\ Done(r) /\ ReachedSession(r) => Head(resp[r]) = AcceptedResponse

C8_Witness ==
    \E r \in Posts :
        /\ Done(r) /\ ClientStatus(r) = 202
        /\ InSeq(PayloadEntry(r), inbound[post[r].sid])
        /\ \E c \in Conns : sse[c].sid = post[r].sid /\ sse[c].pc = "created"

\* C9: within one session the engine receives the inbound payloads in the
\* order their POSTs arrived, for every interleaving of POST handlers.
C9_InboundArrivalOrder ==
    \A s \in SessionIds : \A i, j \in 1..Len(received[s]) :
        i < j => received[s][i].req < received[s][j].req

\* the multipart-then-JSON case of C9: a multipart POST arrives first, a
\* JSON POST second, and the engine run has received the JSON payload first
C9_Witness ==
    \E s \in SessionIds :
        /\ Len(received[s]) = 2
        /\ received[s][1].req = 2 /\ post[2].enc = "json"
        /\ received[s][2].req = 1 /\ post[1].enc = "multipart"

\* C10: within one session the message events written to the SSE stream are
\* the messages the engine emitted, in emission order, none reordered,
\* duplicated or dropped.
C10_OutboundEmissionOrder ==
    \A c \in Conns :
        /\ Len(MessagesOf(stream[c])) <= Len(emitted[c])
        /\ \A i \in 1..Len(MessagesOf(stream[c])) :
              MessagesOf(stream[c])[i].data = emitted[c][i]
        /\ ~sse[c].gone => Len(MessagesOf(stream[c])) = Len(emitted[c])

C10_Witness ==
    \E c \in Conns :
        /\ ~sse[c].gone
        /\ Len(MessagesOf(stream[c])) = 2
        /\ Len(emitted[c]) = 2

\* ------------------------------------------------------- handler boundary
\* What handle_sse hands back to the framework once it is over: Response()
\* after a run that returned; there is no except clause around the run, so
\* an exception of the run, or the cancellation, leaves the handler as it is.
SseHandlerResult(c) ==
    IF sse[c].how = "returned"
    THEN [kind |-> "response", status |-> 200]
    ELSE [kind |-> "propagated", status |-> 0]

\* the POST met an exception inside handle_messages
PostRaised(r) ==
    /\ IsMultipart(post[r].enc)
    /\ \/ post[r].form = "malformed"
       \/ ~MissingData(FormGet(post[r].form, post[r].body))
          /\ ~JsonBody(FormGet(post[r].form, post[r].body)).ok

\* C11: an unexpected exception inside a handler is caught at the handler
\* boundary and answered with 500: a POST that raised inside handle_messages
\* reads 500, and an engine run that raised inside handle_sse ends in a 500
\* response of the handler, never in an exception leaving the handler.
C11_ExceptionsAnswered500 ==
    /\ \A r \in Posts : Done(r) /\ PostRaised(r) => Head(resp[r]) = ErrorResponse
    /\ \A c \in Conns :
          sse[c].pc = "done" /\ sse[c].how = "raised"
              => SseHandlerResult(c) = [kind |-> "response", status |-> 500]

\* an engine run raised and handle_sse is over
C11_Witness ==
    \E c \in Conns : sse[c].pc = "done" /\ sse[c].how = "raised"

\* ------------------------------------------------------ failure isolation
\* a request has failed: a POST answered with an error status, or a stream
\* whose engine run raised or was cancelled
PostFailed(r) == Done(r) /\ ClientStatus(r) >= 400
SseFailed(c) == sse[c].pc \in {"ended", "done"} /\ sse[c].how \in {"raised", "cancelled"}
SomeRequestFailed == (\E r \in Posts : PostFailed(r)) \/ (\E c \in Conns : SseFailed(c))
\* the next connection the server has not seen yet
NextConn(c) == sse[c].pc = "idle" /\ \A d \in Conns : d < c => sse[d].pc # "idle"
\* the handler of POST r is about to forward its payload to an Open session
ForwardsToOpen(r) ==
    /\ post[r].pc \in {"json", "multipart"}
    /\ CarriesPayload(r)
    /\ ~PostRaised(r)
    /\ ~(IsMultipart(post[r].enc) /\ MissingData(FormGet(post[r].form, post[r].body)))
    /\ post[r].sid \in SessionIds
    /\ registry[post[r].sid] = "Open"

\* C12: after a request has failed the server is still running: the next
\* GET /sse is served and creates a new Open session, and a POST forwarded
\* to an Open session is still accepted (202) and its payload enqueued.
C12_ServerSurvivesFailure ==
    /\ [](SomeRequestFailed => \A c \in Conns : NextConn(c) => ENABLED SseConnect(c))
    /\ [][SomeRequestFailed =>
            /\ \A c \in Conns : SseConnect(c) => registry'[sse'[c].sid] = "Open"
            /\ \A r \in Posts :
                  ForwardsToOpen(r) /\ (PostJson(r) \/ PostMultipart(r))
                      => /\ Head(resp'[r]) = AcceptedResponse
                         /\ inbound'[post[r].sid]
                               = Append(inbound[post[r].sid], PayloadEntry(r))]_vars

\* stream 1 ended in an exception of its engine run and POST 1 was refused;
\* session 2 was opened and POST 2 to it was accepted
C12_Witness ==
    /\ sse[1].pc = "done" /\ sse[1].how = "raised"
    /\ PostFailed(1)
    /\ sse[2].sid \in SessionIds /\ registry[sse[2].sid] = "Open"
    /\ Done(2) /\ post[2].sid = sse[2].sid /\ ClientStatus(2) = 202
    /\ InSeq(PayloadEntry(2), delivered[sse[2].sid])

\* -------------------------------------------------------- malformed input
\* C13: a multipart POST whose body cannot be parsed is answered with 400
\* and nothing is delivered to any session.
C13_MalformedMultipart400 ==
    \A r \in Posts :
        Done(r) /\ IsMultipart(post[r].enc) /\ post[r].form = "malformed"
            => ClientStatus(r) = 400 /\ ~ReachedSession(r)

\* a POST with an unparsable multipart body has been answered
C13_Witness ==
    \E r \in Posts :
        Done(r) /\ post[r].form = "malformed" /\ Head(resp[r]) = ErrorResponse

\* ------------------------------------------------------- payload opacity
\* the outcome of a POST: what was written in answer, and whether its
\* payload reached a session
PostOutcome(r) == [responses |-> resp[r], reached |-> ReachedSession(r)]

\* C14: the outcome of a POST depends only on its encoding, on the presence
\* of the data field and on the state of the session it names, never on the
\* content of the payload: two POSTs that agree on those have one outcome.
C14_OutcomeIgnoresContent ==
    \A r1, r2 \in Posts :
        /\ Done(r1) /\ Done(r2)
        /\ post[r1].enc = post[r2].enc
        /\ post[r1].form = post[r2].form
        /\ post[r1].seen = post[r2].seen
        => PostOutcome(r1) = PostOutcome(r2)

\* two multipart POSTs with a text field data to one Open session: the
\* empty text is refused with 400, the other text is accepted
C14_Witness ==
    \E r1, r2 \in Posts :
        /\ Done(r1) /\ Done(r2)
        /\ post[r1].form = "field" /\ post[r2].form = "field"
        /\ post[r1].seen = "Open" /\ post[r2].seen = "Open"
        /\ post[r1].body = <<>> /\ post[r2].body # <<>>
        /\ Head(resp[r1]) = MissingDataResponse
        /\ Head(resp[r2]) = AcceptedResponse

\* ------------------------------------------------- routes and health_check
\* create_app: the routes of the application
Routes ==
    { [path |-> "/sse", endpoint |-> "handle_sse", method |-> "GET"],
      [path |-> "/messages", endpoint |-> "handle_messages", method |-> "POST"],
      [path |-> "/health", endpoint |-> "health_check", method |-> "GET"] }
RoutedPaths == { rt.path : rt \in Routes }
\* paths a client may ask for that no route names
OtherPaths == { "/invalid", "/" }
\* the routes that serve a request
RouteFor(method, path) == { rt \in Routes : rt.path = path /\ rt.method = method }

\* int(x) of a quotient n / d: the fraction is cut off towards zero
PyInt(n, d) == IF n >= 0 THEN n \div d ELSE -((-n) \div d)
\* int(time.time() - self._start_time)
UptimeSeconds == PyInt(clock - startTime, TicksPerSecond)
Version == "get_browser_use_version()"
HealthKeys == {"status", "server", "version", "transport", "uptime_seconds"}

\* a health endpoint that reports the state of the sessions in its status
HealthResponse_Busy ==
    [path |-> "/health", status |-> 200,
     body |-> [status |-> IF \E s \in SessionIds : registry[s] = "Open"
                          THEN "busy" ELSE "healthy",
               server |-> "browser-use-mcp",
               version |-> Version,
               transport |-> "sse",
               uptime_seconds |-> UptimeSeconds]]

\* Response(content=json.dumps({...}), media_type="application/json")
HealthResponse ==
    [path |-> "/health", status |-> 200,
     body |-> [status |-> "healthy",
               server |-> "browser-use-mcp",
               version |-> Version,
               transport |-> "sse",
               uptime_seconds |-> UptimeSeconds]]

\* an application that serves its index for every path it does not know
NotFoundResponse_Index(path) == [path |-> path, status |-> 200, body |-> [detail |-> "index"]]

\* no route matches the path
NotFoundResponse(path) == [path |-> path, status |-> 404, body |-> [detail |-> "Not Found"]]

\* GET /health
GetHealth ==
    /\ proc.pc = "serving"
    /\ Len(gets) < MaxGets
    /\ \E rt \in RouteFor("GET", "/health") : rt.endpoint = "health_check"
    /\ gets' = Append(gets, HealthResponse)
    /\ UNCHANGED <<clock, startTime, proc, lifecycle, reclosed, request, forwarded>>
    /\ UNCHANGED sessVars
    /\ UNCHANGED sseVars
    /\ UNCHANGED postVars

\* GET of a path outside the routes
GetOther(path) ==
    /\ Len(gets) < MaxGets
    /\ path \in OtherPaths
    /\ RouteFor("GET", path) = {}
    /\ gets' = Append(gets, NotFoundResponse(path))
    /\ UNCHANGED <<clock, startTime, proc, lifecycle, reclosed, request, forwarded>>
    /\ UNCHANGED sessVars
    /\ UNCHANGED sseVars
    /\ UNCHANGED postVars

\* time passes
ClockTick ==
    /\ clock < MaxClock
    /\ clock' = clock + 1
    /\ UNCHANGED <<startTime, gets, proc, lifecycle, reclosed, request, forwarded>>
    /\ UNCHANGED sessVars
    /\ UNCHANGED sseVars
    /\ UNCHANGED postVars

\* time.time() is the system's wall clock: it is set back to t when the
\* system time is adjusted
ClockSetBack(t) ==
    /\ t \in 0..MaxClock
    /\ t < clock
    /\ clock' = t
    /\ UNCHANGED <<startTime, gets, proc, lifecycle, reclosed, request, forwarded>>
    /\ UNCHANGED sessVars
    /\ UNCHANGED sseVars
    /\ UNCHANGED postVars

\* GET requests beside the streams: sessions open, end in an exception and
\* are closed while /health and unrouted paths are asked for
HealthNext ==
    \/ \E c \in Conns :
        \/ SseConnect(c)
        \/ SseEndpoint(c)
        \/ EngineReturn(c, "raised")
        \/ SseExit(c)
    \/ GetHealth
    \/ \E path \in OtherPaths : GetOther(path)
    \/ ClockTick
    \/ \E t \in 0..MaxClock : ClockSetBack(t)

SpecHealth == Init /\ [][HealthNext]_vars

\* the responses of GET /health, in the order of the calls
HealthCalls == SelectSeq(gets, LAMBDA g : g.path = "/health")

\* C15: across the GET /health calls of one process the reported
\* uptime_seconds never decreases from a call to a later call and is never
\* negative.
C15_UptimeMonotone ==
    /\ \A i \in 1..Len(HealthCalls) : HealthCalls[i].body.uptime_seconds >= 0
    /\ \A i, j \in 1..Len(HealthCalls) :
          i < j => HealthCalls[i].body.uptime_seconds
                      <= HealthCalls[j].body.uptime_seconds

\* a later call reports a smaller uptime than an earlier one, and a call
\* reports a negative uptime
C15_Witness ==
    /\ \E i, j \in 1..Len(HealthCalls) :
          i < j /\ HealthCalls[i].body.uptime_seconds
                      > HealthCalls[j].body.uptime_seconds
    /\ \E i \in 1..Len(HealthCalls) : HealthCalls[i].body.uptime_seconds < 0

\* C16: in every state of the server GET /health is answered, with 200 and
\* a JSON object of the keys status, server, version, transport and
\* uptime_seconds, status "healthy", server "browser-use-mcp", transport
\* "sse"; serving it changes no session, stream or POST state.
C16_HealthAnswer ==
    /\ [](\A i \in 1..Len(HealthCalls) :
            /\ HealthCalls[i].status = 200
            /\ DOMAIN HealthCalls[i].body = HealthKeys
            /\ HealthCalls[i].body.status = "healthy"
            /\ HealthCalls[i].body.server = "browser-use-mcp"
            /\ HealthCalls[i].body.transport = "sse")
    /\ [](Len(gets) < MaxGets => ENABLED GetHealth)
    /\ [][GetHealth => UNCHANGED <<sessVars, sseVars, postVars>>]_vars

\* /health was answered, one session is Open and another was closed after
\* its engine run raised
C16_Witness ==
    /\ Len(HealthCalls) = MaxGets
    /\ \E s \in SessionIds : registry[s] = "Open"
    /\ \E c \in Conns : /\ sse[c].pc = "done" /\ sse[c].how = "raised"
                        /\ registry[sse[c].sid] = "Closed"

InitMain ==
    /\ registry = [s \in SessionIds |-> "Absent"]
    /\ inbound = [s \in SessionIds |-> <<>>]
    /\ delivered = [s \in SessionIds |-> <<>>]
    /\ received = [s \in SessionIds |-> <<>>]
    /\ nextId = 1
    /\ sse = [c \in Conns |-> IdleSse]
    /\ stream = [c \in Conns |-> <<>>]
    /\ emitted = [c \in Conns |-> <<>>]
    /\ post = [r \in Posts |-> NoPost]
    /\ resp = [r \in Posts |-> <<>>]
    /\ arrived = 0
    /\ clock = TicksPerSecond
    /\ startTime = 0
    /\ gets = <<>>
    /\ \E st, mc \in BOOLEAN :
          proc = [pc |-> "import_starlette",
                  installed_starlette |-> st, installed_mcp |-> mc,
                  STARLETTE_AVAILABLE |-> FALSE, MCP_SSE_AVAILABLE |-> FALSE,
                  block |-> 0, outcome |-> "none", exited |-> FALSE, code |-> 0]
    /\ lifecycle = <<>>
    /\ reclosed = [c \in Conns |-> FALSE]
    /\ request = NoRequest
    /\ forwarded = <<>>

\* sys.exit(code)
SysExit(code) == [proc EXCEPT !.pc = "exited", !.exited = TRUE, !.code = code]
Did(what) == lifecycle' = Append(lifecycle, what)
ProcFrame ==
    /\ UNCHANGED <<clock, gets, reclosed, request, forwarded>>
    /\ UNCHANGED sessVars
    /\ UNCHANGED sseVars
    /\ UNCHANGED postVars

\* try: from starlette ... import uvicorn / except ImportError: sys.exit(1)
ImportStarlette ==
    /\ proc.pc = "import_starlette"
    /\ proc' = IF proc.installed_starlette
               THEN [proc EXCEPT !.pc = "import_mcp", !.STARLETTE_AVAILABLE = TRUE]
               ELSE [SysExit(1) EXCEPT !.STARLETTE_AVAILABLE = FALSE]
    /\ UNCHANGED <<startTime, lifecycle>>
    /\ ProcFrame

\* an import guard that reports the missing library and ends with sys.exit()
ImportMcp_ExitZero ==
    /\ proc.pc = "import_mcp"
    /\ proc' = IF proc.installed_mcp
               THEN [proc EXCEPT !.pc = "main_block", !.MCP_SSE_AVAILABLE = TRUE,
                                 !.block = 1]
               ELSE [SysExit(0) EXCEPT !.MCP_SSE_AVAILABLE = FALSE]
    /\ UNCHANGED <<startTime, lifecycle>>
    /\ ProcFrame

\* try: from mcp.server.sse import ... / except ImportError: sys.exit(1);
\* then the module body runs on to the first __main__ block
ImportMcp ==
    /\ proc.pc = "import_mcp"
    /\ proc' = IF proc.installed_mcp
               THEN [proc EXCEPT !.pc = "main_block", !.MCP_SSE_AVAILABLE = TRUE,
                                 !.block = 1]
               ELSE [SysExit(1) EXCEPT !.MCP_SSE_AVAILABLE = FALSE]
    /\ UNCHANGED <<startTime, lifecycle>>
    /\ ProcFrame

\* if __name__ == "__main__": parse the arguments, asyncio.run(main_sse(...))
MainBlock ==
    /\ proc.pc = "main_block"
    /\ Did("parse_args")
    /\ proc' = [proc EXCEPT !.pc = "main_sse", !.outcome = "none"]
    /\ UNCHANGED startTime
    /\ ProcFrame

\* main_sse: if not MCP_SSE_AVAILABLE or not STARLETTE_AVAILABLE: sys.exit(1)
MainSseGuard ==
    /\ proc.pc = "main_sse"
    /\ proc' = IF ~proc.MCP_SSE_AVAILABLE \/ ~proc.STARLETTE_AVAILABLE
               THEN SysExit(1)
               ELSE [proc EXCEPT !.pc = "create_engine"]
    /\ UNCHANGED <<startTime, lifecycle>>
    /\ ProcFrame

\* browser_server = BrowserUseServer(...)
CreateEngine ==
    /\ proc.pc = "create_engine"
    /\ Did("engine")
    /\ proc' = [proc EXCEPT !.pc = "start_cleanup"]
    /\ UNCHANGED startTime
    /\ ProcFrame

\* await browser_server._start_cleanup_task()
StartCleanup ==
    /\ proc.pc = "start_cleanup"
    /\ Did("cleanup")
    /\ proc' = [proc EXCEPT !.pc = "create_server"]
    /\ UNCHANGED startTime
    /\ ProcFrame

\* sse_server = SSEMCPServer(...): _start_time = time.time(); create_app()
CreateServer ==
    /\ proc.pc = "create_server"
    /\ startTime' = clock
    /\ Did("server")
    /\ proc' = [proc EXCEPT !.pc = "capture_start"]
    /\ ProcFrame

\* _telemetry.capture(MCPServerTelemetryEvent(action='start'))
CaptureStart ==
    /\ proc.pc = "capture_start"
    /\ Did("start")
    /\ proc' = [proc EXCEPT !.pc = "serve"]
    /\ UNCHANGED startTime
    /\ ProcFrame

\* uvicorn.Server(config); await server.serve(): the port is bound
Serve ==
    /\ proc.pc = "serve"
    /\ Did("serve")
    /\ proc' = [proc EXCEPT !.pc = "serving"]
    /\ UNCHANGED startTime
    /\ ProcFrame

\* server.serve() is over: it returned, raised KeyboardInterrupt (caught),
\* or raised another exception (not caught); the finally clause is next
ServeEnd(outcome) ==
    /\ proc.pc = "serving"
    /\ outcome \in {"returned", "interrupted", "failed"}
    /\ proc' = [proc EXCEPT !.pc = "capture_stop", !.outcome = outcome]
    /\ UNCHANGED <<startTime, lifecycle>>
    /\ ProcFrame

\* a shutdown that captures the stop event in the KeyboardInterrupt handler
\* instead of the finally clause
CaptureStop_OnInterruptOnly ==
    /\ proc.pc = "capture_stop"
    /\ IF proc.outcome = "interrupted" THEN Did("stop") ELSE UNCHANGED lifecycle
    /\ proc' = [proc EXCEPT !.pc = "flush"]
    /\ UNCHANGED startTime
    /\ ProcFrame

\* finally: _telemetry.capture(MCPServerTelemetryEvent(action='stop', ...))
CaptureStop ==
    /\ proc.pc = "capture_stop"
    /\ Did("stop")
    /\ proc' = [proc EXCEPT !.pc = "flush"]
    /\ UNCHANGED startTime
    /\ ProcFrame

\* finally: _telemetry.flush(); then main_sse returns to its __main__ block,
\* and the module body runs on to the next block or to its end; an exception
\* serve() raised ends the process instead
Flush ==
    /\ proc.pc = "flush"
    /\ Did("flush")
    /\ proc' = IF proc.outcome = "failed" THEN SysExit(1)
               ELSE IF proc.block = 1
               THEN [proc EXCEPT !.pc = "main_block", !.block = 2]
               ELSE SysExit(0)
    /\ UNCHANGED startTime
    /\ ProcFrame

MainNext ==
    \/ ImportStarlette
    \/ ImportMcp
    \/ MainBlock
    \/ MainSseGuard
    \/ CreateEngine
    \/ StartCleanup
    \/ CreateServer
    \/ CaptureStart
    \/ Serve
    \/ ServeEnd("returned")
    \/ ServeEnd("interrupted")
    \/ ServeEnd("failed")
    \/ CaptureStop
    \/ Flush
    \/ GetHealth
    \/ ClockTick

SpecMain == InitMain /\ [][MainNext]_vars

\* a library the module needs is not installed
DependencyMissing == ~proc.installed_starlette \/ ~proc.installed_mcp
\* the steps that create the engine, start the cleanup task, emit telemetry
\* or bind the port
StartupSteps == {"engine", "cleanup", "start", "stop", "flush", "serve"}

\* C18: when starlette/uvicorn or the MCP SSE transport is absent the
\* process creates no engine, starts no cleanup task, emits no telemetry and
\* binds no port, and when it has exited its exit code is not zero.
C18_MissingDependencyExit ==
    DependencyMissing =>
        /\ \A i \in 1..Len(lifecycle) : lifecycle[i] \notin StartupSteps
        /\ proc.pc \in {"import_starlette", "import_mcp", "exited"}
        /\ proc.exited => proc.code # 0

\* starlette is there, the MCP transport is not: the process has exited 1
C18_Witness ==
    /\ proc.installed_starlette /\ ~proc.installed_mcp
    /\ proc.exited /\ proc.code = 1
    /\ lifecycle = <<>>

\* ------------------------------------------------ POSTs naming no session
\* a POST /messages request without a session_id arrives
PostArriveBare(in) ==
    /\ arrived < MaxPosts
    /\ in \in PostInputs
    /\ arrived' = arrived + 1
    /\ post' = [post EXCEPT ![arrived + 1] =
                  [pc |-> IF IsMultipart(in.enc) THEN "multipart" ELSE "json",
                   enc |-> in.enc, form |-> in.form, body |-> in.body,
                   sid |-> NoSessionId, seen |-> "none"]]
    /\ UNCHANGED resp
    /\ UNCHANGED sessVars
    /\ UNCHANGED sseVars
    /\ UNCHANGED auxVars

\* clients that POST without a session_id, before and after streams open
BareNext ==
    \/ \E c \in Conns :
        \/ SseConnect(c)
        \/ SseEndpoint(c)
    \/ \E in \in PostInputs : PostArriveBare(in)
    \/ \E r \in Posts : PostJson(r)
    \/ \E r \in Posts : PostMultipart(r)

SpecBare == Init /\ [][BareNext]_vars

\* a response body that is a JSON-RPC reply: an object with result or error
JsonRpcReplies == { "{result}", "{error}" }
\* a JSON POST that names no session
BareJson(r) == post[r].enc = "json" /\ post[r].sid = NoSessionId

\* C17: a JSON POST to /messages without a session_id is
\* answered with 200 and a JSON body that has a result or an error member.
C17_BarePostReplies ==
    \A r \in Posts :
        Done(r) /\ BareJson(r)
            => ClientStatus(r) = 200 /\ Head(resp[r]).body \in JsonRpcReplies

\* no stream was ever opened and a JSON POST without session_id is answered
C17_Witness ==
    /\ \A s \in SessionIds : registry[s] = "Absent"
    /\ \E r \in Posts : /\ Done(r) /\ BareJson(r)
                         /\ IsClientError(ClientStatus(r))
                         /\ ~ReachedSession(r)

\* ------------------------------------------------------ end of the engine run
\* leaving the connect_sse block is the next thing the handler does once the
\* run is over: the event loop runs it
SpecStreamFair ==
    /\ SpecStream
    /\ \A c \in Conns : WF_vars(SseExit(c))

\* the engine run of stream c is over, by return or by exception
RunOver(c) == sse[c].pc = "ended" /\ sse[c].how \in {"returned", "raised"}
\* the handler of stream c is over and the response with it
HandlerOver(c) == sse[c].pc = "done"

\* C20: when the engine run of a session has returned, normally or with an
\* exception, the handler closes the session and ends the SSE response; no
\* session is Open once the handler of its run is over.
C20_RunEndClosesSession ==
    /\ \A c \in Conns :
          RunOver(c) ~> (HandlerOver(c) /\ registry[sse[c].sid] = "Closed")
    /\ [](\A c \in Conns : HandlerOver(c) => registry[sse[c].sid] = "Closed")
    /\ [][\A c \in Conns : RunOver(c) /\ sse'[c] # sse[c]
            => HandlerOver(c)' /\ registry'[sse[c].sid] = "Closed"]_vars

\* one run returned, another raised; both sessions are Closed and both
\* handlers over
C20_Witness ==
    \E c, d \in Conns :
        /\ HandlerOver(c) /\ sse[c].how = "returned"
        /\ HandlerOver(d) /\ sse[d].how = "raised"
        /\ registry[sse[c].sid] = "Closed" /\ registry[sse[d].sid] = "Closed"

\* ------------------------------------------------------- client disconnect
\* the event loop runs the writer, the cancellation and the handler's exit
\* when they are ready
SpecChurnFair ==
    /\ SpecStream
    /\ \A c \in Conns : /\ WF_vars(SseEndpoint(c))
                        /\ WF_vars(SseCancel(c))
                        /\ WF_vars(SseExit(c))

\* the client of stream c is gone while the engine run has not returned
GoneBeforeReturn(c) == sse[c].gone /\ sse[c].pc \in {"created", "running"}
\* the session of stream c is released: Closed, its queue dropped
Released(c) == registry[sse[c].sid] = "Closed" /\ inbound[sse[c].sid] = <<>>

PostStep(r) == PostJson(r) \/ PostMultipart(r)

\* C22: a POST handled around the close of its session has one of two
\* outcomes: its payload is appended while the session is Open and it is
\* acknowledged, or it is refused and nothing is appended; no POST is
\* acknowledged once the session is Closed, and a released queue stays empty.
C22_DeliverOrReject ==
    /\ [][\A r \in Posts : PostStep(r) =>
            \/ /\ post[r].sid \in SessionIds
               /\ registry[post[r].sid] = "Open"
               /\ Head(resp'[r]) = AcceptedResponse
               /\ inbound'[post[r].sid] = Append(inbound[post[r].sid], PayloadEntry(r))
            \/ /\ Head(resp'[r]).status # 202
               /\ inbound' = inbound
               /\ delivered' = delivered]_vars
    /\ [](\A r \in Posts : Done(r) /\ ClientStatus(r) = 202 => post[r].seen = "Open")
    /\ [](\A s \in SessionIds : registry[s] = "Closed" => inbound[s] = <<>>)

\* two payload POSTs to one session, one handled before its close and
\* acknowledged, one handled after it and refused
C22_Witness ==
    \E r1, r2 \in Posts :
        /\ post[r1].sid = post[r2].sid /\ post[r1].sid \in SessionIds
        /\ Done(r1) /\ post[r1].seen = "Open" /\ ClientStatus(r1) = 202
        /\ Done(r2) /\ post[r2].seen = "Closed" /\ CarriesPayload(r2)
        /\ post[r2].body # <<>>
        /\ IsClientError(ClientStatus(r2)) /\ ~ReachedSession(r2)
        /\ inbound[post[r1].sid] = <<>>

\* ------------------------------------------------------ lifecycle ownership
\* a step of handle_messages: the arrival of a POST or its handling
PostHandling == \/ \E in \in PostInputs, sid \in Targets : PostArrive(in, sid)
                \/ \E r \in Posts : PostStep(r)
\* the sessions there are, and the state of each
SessionStates == <<registry, nextId>>

\* C23: handling a POST creates no session and closes none, whatever its
\* outcome; the sessions and their states change only in handle_sse, on
\* connect and on leaving the connect_sse block.
C23_PostLeavesSessions ==
    /\ [][PostHandling => UNCHANGED SessionStates]_vars
    /\ [][SessionStates' # SessionStates
            => \E c \in Conns : SseConnect(c) \/ SseExit(c)]_vars

\* a POST was answered with 500 and another with 202, both to a session
\* that is still Open
C23_Witness ==
    \E r1, r2 \in Posts :
        /\ Done(r1) /\ Head(resp[r1]) = ErrorResponse
        /\ Done(r2) /\ Head(resp[r2]) = AcceptedResponse
        /\ post[r1].sid = post[r2].sid /\ post[r1].sid \in SessionIds
        /\ post[r1].seen = "Open"
        /\ registry[post[r1].sid] = "Open"

\* ------------------------------------------------------------ repeated close
\* the session of stream c is closed once more after the handler closed it:
\* the connection drop, the end of the run and the idle timeout each close
CloseAgain(c) ==
    /\ sse[c].pc = "done"
    /\ RegistryClose(sse[c].sid)
    /\ reclosed' = [reclosed EXCEPT ![c] = TRUE]
    /\ UNCHANGED <<delivered, received, nextId>>
    /\ UNCHANGED sseVars
    /\ UNCHANGED postVars
    /\ UNCHANGED <<clock, startTime, gets, proc, lifecycle, request, forwarded>>

CloseNext ==
    \/ StreamNext
    \/ \E c \in Conns : CloseAgain(c)

SpecClose == Init /\ [][CloseNext]_vars

Stalled(a) == sse[a].pc = "running" /\ inbound[sse[a].sid] # <<>>
SomeStalled(b) == \E a \in Conns : a # b /\ Stalled(a)
\* POST r is addressed to the session of stream b
AddressedTo(r, b) == sse[b].pc # "idle" /\ post[r].sid = sse[b].sid

\* C25: while the engine run of one session is suspended and does not take
\* its input, a new connection is still served and gets its endpoint event,
\* and a POST to the other session is still handled, acknowledged with 202
\* and delivered to that session.
C25_SessionsDoNotBlock ==
    /\ [](\A b \in Conns : SomeStalled(b) =>
            /\ NextConn(b) => ENABLED SseConnect(b)
            /\ sse[b].pc = "created" => ENABLED SseEndpoint(b)
            /\ \A r \in Posts :
                  AddressedTo(r, b) /\ post[r].pc \in {"json", "multipart"}
                      => ENABLED PostStep(r))
    /\ [][\A b \in Conns : SomeStalled(b) =>
            /\ SseEndpoint(b) => EndpointsOf(stream'[b]) # <<>>
            /\ \A r \in Posts :
                  AddressedTo(r, b) /\ ForwardsToOpen(r) /\ PostStep(r)
                      => /\ Head(resp'[r]) = AcceptedResponse
                         /\ InSeq(PayloadEntry(r), delivered'[sse[b].sid])]_vars

\* the run of stream 1 sits on an input it has not taken; stream 2 was
\* opened after that input was queued, has its endpoint event, and a POST
\* to its session was acknowledged and delivered
C25_Witness ==
    /\ Stalled(1)
    /\ Done(1) /\ post[1].sid = sse[1].sid
    /\ sse[2].pc = "running" /\ EndpointsOf(stream[2]) # <<>>
    /\ Done(2) /\ post[2].sid = sse[2].sid /\ ClientStatus(2) = 202
    /\ InSeq(PayloadEntry(2), delivered[sse[2].sid])

\* --------------------------------------------------- streams and sessions
\* the connections that have been served, and the sessions registered
Connected == { c \in Conns : sse[c].pc # "idle" }
Registered == { s \in SessionIds : registry[s] # "Absent" }
\* the connections whose stream is the outbound stream of session s
StreamsOf(s) == { c \in Connected : sse[c].sid = s }

\* C26: every session has at most one outbound SSE stream and every
\* connection exactly one session: each registered session belongs to one
\* connection, each served connection has one registered session, and a
\* connection keeps the session it was given.
C26_OneStreamPerSession ==
    /\ [](\A s \in Registered : Cardinality(StreamsOf(s)) = 1)
    /\ [](\A c \in Connected : sse[c].sid \in Registered)
    /\ [](Cardinality(Registered) = Cardinality(Connected))
    /\ [][\A c \in Connected : sse'[c].sid = sse[c].sid]_vars

\* two streams are running, each with its endpoint event and a session of
\* its own
C26_Witness ==
    /\ Connected = Conns
    /\ \A c \in Conns : sse[c].pc = "running" /\ EndpointsOf(stream[c]) # <<>>
    /\ \A c \in Conns : StreamsOf(sse[c].sid) = {c}
    /\ Cardinality(Registered) = MaxConns

\* --------------------------------------------------------- telemetry order
\* how often the process has taken a step
Count(what) == Len(SelectSeq(lifecycle, LAMBDA e : e = what))
\* step i was taken after a step `what` of the same run of main_sse
AfterInRun(i, what) ==
    \E j \in 1..(i - 1) :
        /\ lifecycle[j] = what
        /\ \A k \in (j + 1)..(i - 1) : lifecycle[k] # "parse_args"
\* main_sse is not between the end of serve() and the end of its finally
ShutdownDone == proc.pc \notin {"serving", "capture_stop", "flush"}

\* C27: in every run of main_sse the start event is captured after the
\* cleanup task is started and before the server serves; once serving has
\* ended, by return, by KeyboardInterrupt or by another exception, one stop
\* event is captured and telemetry is flushed right after it; every stop has
\* a start of its own before it.
C27_TelemetryOrder ==
    /\ \A i \in 1..Len(lifecycle) :
          /\ lifecycle[i] = "start" => AfterInRun(i, "cleanup")
          /\ lifecycle[i] = "serve" => AfterInRun(i, "start")
          /\ lifecycle[i] = "stop" => AfterInRun(i, "serve")
          /\ lifecycle[i] = "stop" /\ i < Len(lifecycle) => lifecycle[i + 1] = "flush"
          /\ lifecycle[i] = "flush" => i > 1 /\ lifecycle[i - 1] = "stop"
    /\ Count("stop") <= Count("start")
    /\ Count("start") <= Count("stop") + 1
    /\ ShutdownDone => Count("stop") = Count("serve") /\ Count("flush") = Count("serve")
    /\ proc.pc = "flush" => Count("stop") = Count("serve")

\* serve() raised an exception that is not caught: stop was captured,
\* telemetry flushed, and the process has exited
C27_Witness ==
    /\ proc.exited /\ proc.outcome = "failed"
    /\ lifecycle = <<"parse_args", "engine", "cleanup", "server", "start",
                     "serve", "stop", "flush">>

\* ------------------------------------------------- one response per request
\* C28: every request gets exactly one response: no POST has two response
\* starts written on it, and no GET /sse has.
C28_OneResponsePerRequest ==
    /\ \A r \in Posts : Done(r) => Len(resp[r]) = 1
    /\ \A c \in Conns : sse[c].starts <= 1

\* the transport acknowledged a POST with 202 and the handler's own 200 was
\* written on the same request after it
C28_Witness ==
    \E r \in Posts :
        /\ Done(r)
        /\ resp[r] = <<AcceptedResponse, HandlerOkResponse>>

\* ------------------------------------------------------- one server per run
\* C29: one invocation of the module as a script parses its arguments once,
\* starts one server and captures one start event.
C29_ServerRunsOnce ==
    /\ Count("parse_args") <= 1
    /\ Count("start") <= 1
    /\ Count("serve") <= 1

\* the first run of main_sse returned and its stop was captured; the
\* arguments were parsed again and a second server serves
C29_Witness ==
    /\ proc.block = 2 /\ proc.pc = "serving"
    /\ Count("stop") = 1
    /\ Count("start") = 2 /\ Count("serve") = 2

\* --------------------------------------------------------- session isolation
\* the session POST r named
NamedBy(e) == post[e.req].sid

\* C30: a payload POSTed with the id of session A is queued for, and
\* received by, the engine run of session A only, in both encodings and for
\* every interleaving of the POSTs.
C30_SessionIsolation ==
    \A s \in SessionIds :
        /\ \A i \in 1..Len(inbound[s]) : NamedBy(inbound[s][i]) = s
        /\ \A i \in 1..Len(delivered[s]) : NamedBy(delivered[s][i]) = s
        /\ \A i \in 1..Len(received[s]) : NamedBy(received[s][i]) = s

\* two sessions are Open; a multipart POST was sent to the first and a JSON
\* POST to the second, and each engine run has received its own payload
C30_Witness ==
    \E a, b \in SessionIds : \E r1, r2 \in Posts :
        /\ a # b
        /\ post[r1].enc = "multipart" /\ post[r1].sid = a
        /\ post[r2].enc = "json" /\ post[r2].sid = b
        /\ received[a] = <<PayloadEntry(r1)>>
        /\ received[b] = <<PayloadEntry(r2)>>

\* ------------------------------------------------------ the field named data
\* the transport answered POST r: the handler forwarded it
TransportResponses ==
    { AcceptedResponse, RejectedResponse("NotFound"), RejectedResponse("Closed") }
Forwarded(r) == resp[r] # <<>> /\ Head(resp[r]) \in TransportResponses
\* the form of POST r was parsed
FormParsed(r) == IsMultipart(post[r].enc) /\ post[r].form # "malformed"

\* C31: a multipart POST is answered with the 400 "Missing 'data' field in
\* form" exactly when its form has no field named data; a text field data,
\* the empty text included, is forwarded to the transport.
C31_MissingIffNoField ==
    \A r \in Posts :
        Done(r) /\ FormParsed(r) =>
            /\ (Head(resp[r]) = MissingDataResponse) <=> (post[r].form = "nodata")
            /\ post[r].form = "field" => Forwarded(r)

\* a text field data with the empty text, sent to an Open session, was
\* answered with the 400 of a missing field and not forwarded
C31_Witness ==
    \E r \in Posts :
        /\ Done(r) /\ post[r].form = "field" /\ post[r].body = <<>>
        /\ post[r].seen = "Open"
        /\ resp[r] = <<MissingDataResponse>>
        /\ ~ReachedSession(r)

\* ----------------------------------------------------- at-most-once delivery
\* p is the beginning of q
IsPrefix(p, q) == Len(p) <= Len(q) /\ SubSeq(q, 1, Len(p)) = p
\* no POST has two entries in q
NoRepeat(q) == \A i, j \in 1..Len(q) : i # j => q[i].req # q[j].req
\* the handler itself answered POST r with an error
HandlerError(r) == Done(r) /\ Head(resp[r]) \in {MissingDataResponse, ErrorResponse}
\* POST r has an entry in q
HasEntry(r, q) == \E i \in 1..Len(q) : q[i].req = r

LaterStates(st) ==
    IF st = "Absent" THEN {"Absent", "Open"}
    ELSE IF st = "Open" THEN {"Open", "Closed"}
    ELSE {"Closed"}

\* C33: the state of a session only moves forward: it is Open from its
\* creation, becomes Closed once and is never Open again, also when it is
\* closed repeatedly; the id a connection is given was no session's before.
C33_StateMovesForward ==
    /\ [][\A s \in SessionIds : registry'[s] \in LaterStates(registry[s])]_vars
    /\ [][\A c \in Conns : SseConnect(c) =>
            /\ registry[sse'[c].sid] = "Absent"
            /\ registry'[sse'[c].sid] = "Open"]_vars
    /\ [](\A c \in Conns : HandlerOver(c) => registry[sse[c].sid] = "Closed")

\* the first session was closed, and closed again; the second connection
\* came after that and has a session of its own, which is Open
C33_Witness ==
    /\ HandlerOver(1) /\ reclosed[1] /\ registry[sse[1].sid] = "Closed"
    /\ sse[2].pc = "running" /\ sse[2].sid # sse[1].sid
    /\ registry[sse[2].sid] = "Open"

\* ---------------------------------------------------------------------
\* Content-type negotiation and the rebuilt request of handle_messages
\* ---------------------------------------------------------------------

\* the longest header list of a received request
MaxHeaders == 3

\* header values, as the characters they are made of
MultipartFormData ==
    <<"m", "u", "l", "t", "i", "p", "a", "r", "t", "/", "f", "o", "r",
      "m", "-", "d", "a", "t", "a">>
ApplicationJson ==
    <<"a", "p", "p", "l", "i", "c", "a", "t", "i", "o", "n", "/", "j",
      "s", "o", "n">>
MultipartWithBoundary ==
    <<"m", "u", "l", "t", "i", "p", "a", "r", "t", "/", "f", "o", "r",
      "m", "-", "d", "a", "t", "a", ";", " ", "b", "o", "u", "n", "d",
      "a", "r", "y", "=", "x">>
MultipartUpperCase ==
    <<"M", "u", "l", "t", "i", "p", "a", "r", "t", "/", "F", "o", "r",
      "m", "-", "D", "a", "t", "a", ";", " ", "b", "o", "u", "n", "d",
      "a", "r", "y", "=", "x">>
PlainNamingMultipart ==
    <<"t", "e", "x", "t", "/", "p", "l", "a", "i", "n", ";", " ", "x",
      "=", "m", "u", "l", "t", "i", "p", "a", "r", "t", "/", "f", "o",
      "r", "m", "-", "d", "a", "t", "a">>
StaleLength == <<"7">>
TraceValue == <<"a">>

\* the headers a received request is made of
HeaderPool ==
    { [name |-> "content-type", value |-> ApplicationJson],
      [name |-> "content-type", value |-> MultipartWithBoundary],
      [name |-> "content-type", value |-> MultipartUpperCase],
      [name |-> "content-type", value |-> PlainNamingMultipart],
      [name |-> "content-length", value |-> StaleLength],
      [name |-> "X-Trace", value |-> TraceValue] }

RECURSIVE HeaderLists(_)
HeaderLists(n) ==
    IF n = 0 THEN { <<>> }
    ELSE HeaderLists(n - 1)
         \cup { Append(hs, h) : hs \in { l \in HeaderLists(n - 1) : Len(l) = n - 1 },
                                h \in HeaderPool }

QueryStrings == { "", "session_id=1" }

\* the POST requests handle_messages is called with
Requests ==
    { [scope |-> [path |-> "/messages", query_string |-> q, headers |-> hs],
       form |-> in.form, body |-> in.body] :
         q \in QueryStrings, hs \in HeaderLists(MaxHeaders), in \in PostInputs }

\* bytes.lower() of a header name
Lower(name) ==
    CASE name = "X-Trace" -> "x-trace"
      [] name = "Content-Type" -> "content-type"
      [] name = "Content-Length" -> "content-length"
      [] OTHER -> name

\* str.lower() of one character of a header value
LowerChar(ch) ==
    CASE ch = "M" -> "m"
      [] ch = "F" -> "f"
      [] ch = "D" -> "d"
      [] OTHER -> ch

\* request.headers.get(name, default): the first header of that name
HeaderGet(headers, name, default) ==
    LET at == { i \in 1..Len(headers) : headers[i].name = name } IN
    IF at = {} THEN default
    ELSE headers[CHOOSE i \in at : \A j \in at : i <= j].value

\* needle in hay, for two strings
Contains(hay, needle) ==
    \E i \in 1..(Len(hay) - Len(needle) + 1) :
        SubSeq(hay, i, i + Len(needle) - 1) = needle

\* the media type a Content-Type value names: the part before the first
\* ";", in lower case
MediaType(value) ==
    LET semis == { i \in 1..Len(value) : value[i] = ";" }
        end == IF semis = {} THEN Len(value)
               ELSE (CHOOSE i \in semis : \A j \in semis : i <= j) - 1
    IN [i \in 1..end |-> LowerChar(value[i])]

\* the branch handle_messages takes for a request
TakesMultipartPath(scope) ==
    Contains(HeaderGet(scope.headers, "content-type", <<>>), MultipartFormData)

Digit(d) ==
    CASE d = 0 -> "0" [] d = 1 -> "1" [] d = 2 -> "2" [] d = 3 -> "3"
      [] d = 4 -> "4" [] d = 5 -> "5" [] d = 6 -> "6" [] d = 7 -> "7"
      [] d = 8 -> "8" [] d = 9 -> "9"

\* str(n).encode('ascii') for n >= 0
RECURSIVE Decimal(_)
Decimal(n) ==
    IF n < 10 THEN <<Digit(n)>>
    ELSE Append(Decimal(n \div 10), Digit(n % 10))

\* the names the rebuild replaces
IsReplaced(h) == Lower(h.name) \in {"content-type", "content-length"}

\* a rebuild that drops the old content-type only, so that a
\* content-length the client sent stays in the list
RebuiltHeaders_KeepLength(headers, json_bytes) ==
    <<[name |-> "content-type", value |-> ApplicationJson]>>
    \o SelectSeq(headers, LAMBDA h : Lower(h.name) # "content-type")
    \o <<[name |-> "content-length", value |-> Decimal(Len(json_bytes))]>>

\* new_headers: application/json first, the other headers in their
\* order, the new content-length last
RebuiltHeaders(headers, json_bytes) ==
    <<[name |-> "content-type", value |-> ApplicationJson]>>
    \o SelectSeq(headers, LAMBDA h : ~IsReplaced(h))
    \o <<[name |-> "content-length", value |-> Decimal(Len(json_bytes))]>>

\* new_scope: a copy of the scope with the rebuilt headers
NewScope(scope, json_bytes) ==
    [scope EXCEPT !.headers = RebuiltHeaders(scope.headers, json_bytes)]

\* request.scope after the rebuild: dict(request.scope) is a copy, and
\* the new list is assigned into the copy
ScopeAfterRebuild(scope, json_bytes) == scope

NotSent == [kind |-> "none", body |-> <<>>]
OriginalReceive == [kind |-> "original", body |-> <<>>]
NewReceive(json_bytes) == [kind |-> "new", body |-> json_bytes]

\* what the handler did with a request: the branch taken, whether it
\* read the body, what it handed to the transport, and its own response
Handled(branch, read, sent, scope, receive, response) ==
    [branch |-> branch, read |-> read, sent |-> sent, scope |-> scope,
     receive |-> receive, response |-> response]

\* the multipart branch of handle_messages for the received request
ForwardMultipart ==
    /\ forwarded = <<>>
    /\ TakesMultipartPath(request.scope)
    /\ LET field == FormGet(request.form, request.body)
           json_body == JsonBody(field)
           json_bytes == JsonBytes(json_body.text)
       IN IF request.form = "malformed" \/ (~MissingData(field) /\ ~json_body.ok)
          THEN /\ forwarded' = <<Handled("multipart", TRUE, FALSE, NoRequest.scope,
                                         NotSent, ErrorResponse)>>
               /\ UNCHANGED request
          ELSE IF MissingData(field)
          THEN /\ forwarded' = <<Handled("multipart", TRUE, FALSE, NoRequest.scope,
                                         NotSent, MissingDataResponse)>>
               /\ UNCHANGED request
          ELSE /\ forwarded' = <<Handled("multipart", TRUE, TRUE,
                                         NewScope(request.scope, json_bytes),
                                         NewReceive(json_bytes), HandlerOkResponse)>>
               /\ request' = [request EXCEPT
                                !.scope = ScopeAfterRebuild(request.scope, json_bytes)]
    /\ UNCHANGED <<clock, startTime, gets, proc, lifecycle, reclosed>>
    /\ UNCHANGED sessVars
    /\ UNCHANGED sseVars
    /\ UNCHANGED postVars

\* the JSON branch: request.scope and request.receive go to the transport
ForwardJson ==
    /\ forwarded = <<>>
    /\ ~TakesMultipartPath(request.scope)
    /\ forwarded' = <<Handled("json", FALSE, TRUE, request.scope,
                              OriginalReceive, HandlerOkResponse)>>
    /\ UNCHANGED request
    /\ UNCHANGED <<clock, startTime, gets, proc, lifecycle, reclosed>>
    /\ UNCHANGED sessVars
    /\ UNCHANGED sseVars
    /\ UNCHANGED postVars

InitForward ==
    /\ registry = [s \in SessionIds |-> "Absent"]
    /\ inbound = [s \in SessionIds |-> <<>>]
    /\ delivered = [s \in SessionIds |-> <<>>]
    /\ received = [s \in SessionIds |-> <<>>]
    /\ nextId = 1
    /\ sse = [c \in Conns |-> IdleSse]
    /\ stream = [c \in Conns |-> <<>>]
    /\ emitted = [c \in Conns |-> <<>>]
    /\ post = [r \in Posts |-> NoPost]
    /\ resp = [r \in Posts |-> <<>>]
    /\ arrived = 0
    /\ clock = TicksPerSecond
    /\ startTime = TicksPerSecond
    /\ gets = <<>>
    /\ proc = ServingProc
    /\ lifecycle = ServingEvents
    /\ reclosed = [c \in Conns |-> FALSE]
    /\ request \in Requests
    /\ forwarded = <<>>

ForwardNext == ForwardMultipart \/ ForwardJson

SpecForward == InitForward /\ [][ForwardNext]_vars

\* the headers the rebuild keeps
OtherHeaders(headers) == SelectSeq(headers, LAMBDA h : ~IsReplaced(h))
\* the headers of one name, whatever the case it is written in
ValuesOf(headers, name) ==
    SelectSeq(headers, LAMBDA h : Lower(h.name) = name)

\* the handler handed a rebuilt request to the transport
SentRebuilt == forwarded # <<>> /\ forwarded[1].branch = "multipart" /\ forwarded[1].sent

\* C34: in the multipart path the request handed to the transport has
\* exactly one content-type header, equal to application/json, exactly one
\* content-length header, equal to the decimal byte length of the
\* extracted payload, its other headers, in their order, its path and its
\* query string are those of the received request, its body is the
\* extracted payload, and no step changes the scope of the received request
C34_RebuiltRequest ==
    /\ [](SentRebuilt =>
            LET f == forwarded[1]
                payload == JsonBody(FormGet(request.form, request.body)).text
            IN /\ ValuesOf(f.scope.headers, "content-type")
                    = <<[name |-> "content-type", value |-> ApplicationJson]>>
               /\ ValuesOf(f.scope.headers, "content-length")
                    = <<[name |-> "content-length",
                         value |-> Decimal(Len(Utf8Encode(payload)))]>>
               /\ OtherHeaders(f.scope.headers) = OtherHeaders(request.scope.headers)
               /\ f.scope.path = request.scope.path
               /\ f.scope.query_string = request.scope.query_string
               /\ f.receive = NewReceive(Utf8Encode(payload)))
    /\ [][request'.scope = request.scope]_vars

\* a multipart request with a content-length of its own, a header that is
\* kept and a session id was rebuilt around a two-byte payload
C34_Witness ==
    /\ SentRebuilt
    /\ ValuesOf(request.scope.headers, "content-length") # <<>>
    /\ OtherHeaders(request.scope.headers) # <<>>
    /\ request.scope.query_string = "session_id=1"
    /\ Len(forwarded[1].receive.body) = 2

\* the media type of the received request, <<>> without a Content-Type
RequestMediaType ==
    MediaType(HeaderGet(request.scope.headers, "content-type", <<>>))

\* C35: a handled POST took the multipart path exactly when the media
\* type of its Content-Type header is multipart/form-data in any letter
\* case, and every other request, one without Content-Type included, was
\* handed to the transport with its own scope and receive, unread
C35_VariantFromMediaType ==
    forwarded # <<>> =>
        LET f == forwarded[1] IN
        /\ (f.branch = "multipart") <=> (RequestMediaType = MultipartFormData)
        /\ f.branch = "json" =>
              /\ f.sent
              /\ ~f.read
              /\ f.scope = request.scope
              /\ f.receive = OriginalReceive

\* a request whose only Content-Type is Multipart/Form-Data; boundary=x
\* went to the transport on the JSON path, its form unread
C35_Witness ==
    /\ forwarded # <<>>
    /\ forwarded[1].branch = "json"
    /\ ~forwarded[1].read
    /\ HeaderGet(request.scope.headers, "content-type", <<>>) = MultipartUpperCase
    /\ request.form = "field"

====
